---- MODULE Spec2Model ----
(***************************************************************************)
(* Model of cinema_checker.py: the title matcher (find_matches,            *)
(* advanced_title_matching, normalize_title, remove_articles,              *)
(* keyword_matching), the run pipeline and the program entry point.        *)
(*                                                                         *)
(* Strings are sequences of one-character strings, so that lower(),        *)
(* strip(), translate(), re.sub() and difflib.SequenceMatcher are computed *)
(* character by character as the interpreter computes them.  Scores are    *)
(* exact rationals <<num, den>> in lowest terms: every score the code      *)
(* computes is a quotient of two small integers, and the float comparisons *)
(* of the code (>, ==, max) agree with the comparisons of the quotients.   *)
(***************************************************************************)
EXTENDS Integers, Sequences, FiniteSets, TLC

(***************************************************************************)
(* Characters                                                              *)
(***************************************************************************)
UpperCase == <<"A","B","C","D","E","F","G","H","I","J","K","L","M",
               "N","O","P","Q","R","S","T","U","V","W","X","Y","Z">>

LowerCase == <<"a","b","c","d","e","f","g","h","i","j","k","l","m",
               "n","o","p","q","r","s","t","u","v","w","x","y","z">>

\* str.isspace() / the regex class \s, on the ASCII range
Whitespace == {" ", "\t", "\n", "\r", "\f"}

\* string.punctuation, without the backquote, which a TLA+ string cannot hold;
\* no title of the model contains one
Punctuation == {"!", "\"", "#", "$", "%", "&", "'", "(", ")", "*", "+", ",",
                "-", ".", "/", ":", ";", "<", "=", ">", "?", "@", "[", "\\",
                "]", "^", "_", "{", "|", "}", "~"}

LowerChar(c) ==
    IF \E i \in 1..Len(UpperCase) : UpperCase[i] = c
    THEN LowerCase[CHOOSE i \in 1..Len(UpperCase) : UpperCase[i] = c]
    ELSE c

(***************************************************************************)
(* str methods and regular expressions used by the matcher                 *)
(***************************************************************************)
\* str.lower()
Lower(s) == [i \in 1..Len(s) |-> LowerChar(s[i])]

RECURSIVE LStrip(_)
LStrip(s) ==
    IF s # <<>> /\ Head(s) \in Whitespace THEN LStrip(Tail(s)) ELSE s

RECURSIVE RStrip(_)
RStrip(s) ==
    IF s # <<>> /\ s[Len(s)] \in Whitespace
    THEN RStrip(SubSeq(s, 1, Len(s) - 1))
    ELSE s

\* str.strip()
Strip(s) == RStrip(LStrip(s))

\* str.translate(str.maketrans('', '', string.punctuation))
RECURSIVE DeletePunctuation(_)
DeletePunctuation(s) ==
    IF s = <<>> THEN <<>>
    ELSE IF Head(s) \in Punctuation THEN DeletePunctuation(Tail(s))
    ELSE <<Head(s)>> \o DeletePunctuation(Tail(s))

\* re.sub(r'\s+', ' ', s): every maximal run of whitespace becomes one space
RECURSIVE CollapseWhitespace(_)
CollapseWhitespace(s) ==
    IF s = <<>> THEN <<>>
    ELSE IF Head(s) \in Whitespace
         THEN <<" ">> \o CollapseWhitespace(LStrip(Tail(s)))
         ELSE <<Head(s)>> \o CollapseWhitespace(Tail(s))

\* the first whitespace-delimited word of a string that starts with a non-space
RECURSIVE FirstWord(_)
FirstWord(s) ==
    IF s = <<>> \/ Head(s) \in Whitespace THEN <<>>
    ELSE <<Head(s)>> \o FirstWord(Tail(s))

\* str.split(): the sequence of whitespace-delimited words
RECURSIVE Split(_)
Split(s) ==
    LET t == LStrip(s)
    IN  IF t = <<>> THEN <<>>
        ELSE LET w == FirstWord(t)
             IN  <<w>> \o Split(SubSeq(t, Len(w) + 1, Len(t)))

\* ' '.join(words)
RECURSIVE Join(_)
Join(words) ==
    IF words = <<>> THEN <<>>
    ELSE IF Len(words) = 1 THEN words[1]
    ELSE words[1] \o <<" ">> \o Join(Tail(words))

(***************************************************************************)
(* Scores: rationals <<num, den>>, den > 0, in lowest terms                *)
(***************************************************************************)
RECURSIVE Gcd(_, _)
Gcd(a, b) == IF b = 0 THEN a ELSE Gcd(b, a % b)

Rat(n, d) == IF n = 0 THEN <<0, 1>> ELSE <<n \div Gcd(n, d), d \div Gcd(n, d)>>

Zero == Rat(0, 1)
One == Rat(1, 1)

Gt(x, y) == x[1] * y[2] > y[1] * x[2]

\* max(x, y) of Python: the first argument is kept unless a later one is greater
Max2(x, y) == IF Gt(y, x) THEN y ELSE x

Max3(x, y, z) == Max2(Max2(x, y), z)

(***************************************************************************)
(* difflib.SequenceMatcher(None, a, b).ratio()                             *)
(* No junk predicate; the automatic junk heuristic only applies to a       *)
(* second sequence of 200 or more elements, longer than any title here.    *)
(***************************************************************************)
\* length of the common run of a and b that starts at a[i], b[j] and stays
\* inside a[..ahi], b[..bhi] (1-based, inclusive)
RECURSIVE RunLen(_, _, _, _, _, _)
RunLen(a, b, i, j, ahi, bhi) ==
    IF i > ahi \/ j > bhi \/ a[i] # b[j] THEN 0
    ELSE 1 + RunLen(a, b, i + 1, j + 1, ahi, bhi)

\* find_longest_match: the longest block a[i..i+k-1] = b[j..j+k-1] inside the
\* window; of all longest blocks the one that starts earliest in a, and of
\* those the one that starts earliest in b.  <<i, j, k>>, k = 0 when none.
find_longest_match(a, b, alo, ahi, blo, bhi) ==
    LET starts == (alo..ahi) \X (blo..bhi)
        len(p) == RunLen(a, b, p[1], p[2], ahi, bhi)
        best == IF starts = {} THEN 0
                ELSE CHOOSE k \in 0..(ahi - alo + 1) :
                        /\ \A p \in starts : len(p) <= k
                        /\ k = 0 \/ \E p \in starts : len(p) = k
    IN  IF best = 0 THEN <<alo, blo, 0>>
        ELSE LET longest == {p \in starts : len(p) = best}
                 i == CHOOSE x \in {p[1] : p \in longest} :
                          \A p \in longest : x <= p[1]
                 j == CHOOSE y \in {p[2] : p \in {q \in longest : q[1] = i}} :
                          \A p \in {q \in longest : q[1] = i} : y <= p[2]
             IN  <<i, j, best>>

\* get_matching_blocks, summed: the number of matched characters
RECURSIVE MatchedChars(_, _, _, _, _, _)
MatchedChars(a, b, alo, ahi, blo, bhi) ==
    IF alo > ahi \/ blo > bhi THEN 0
    ELSE LET m == find_longest_match(a, b, alo, ahi, blo, bhi)
         IN  IF m[3] = 0 THEN 0
             ELSE m[3]
                  + MatchedChars(a, b, alo, m[1] - 1, blo, m[2] - 1)
                  + MatchedChars(a, b, m[1] + m[3], ahi, m[2] + m[3], bhi)

\* ratio(): 2.0 * matches / (len(a) + len(b)), and 1.0 for two empty strings
ratio(a, b) ==
    IF Len(a) + Len(b) = 0 THEN One
    ELSE Rat(2 * MatchedChars(a, b, 1, Len(a), 1, Len(b)), Len(a) + Len(b))

(***************************************************************************)
(* The matcher's helpers                                                   *)
(***************************************************************************)
normalize_title(title) ==
    CollapseWhitespace(DeletePunctuation(Strip(Lower(title))))

articles == { <<"t","h","e">>, <<"a">>, <<"a","n">>, <<"i","l">>, <<"l","a">>,
              <<"l","o">>, <<"i">>, <<"l","e">>, <<"g","l","i">>, <<"u","n">>,
              <<"u","n","a">>, <<"u","n","o">> }

remove_articles(title) ==
    Join(SelectSeq(Split(title), LAMBDA w : w \notin articles))

KeywordSet(title) ==
    {w \in {Split(title)[i] : i \in 1..Len(Split(title))} : Len(w) > 2}

\* keyword_matching dividing by the size of the first set only
keyword_matching_first(title1, title2) ==
    LET words1 == KeywordSet(title1)
        words2 == KeywordSet(title2)
        common_words == words1 \cap words2
    IN  IF words1 = {} \/ words2 = {} THEN Zero
        ELSE IF common_words = {} THEN Zero
        ELSE Rat(Cardinality(common_words), Cardinality(words1))

keyword_matching(title1, title2) ==
    LET words1 == KeywordSet(title1)
        words2 == KeywordSet(title2)
        common_words == words1 \cap words2
        n1 == Cardinality(words1)
        n2 == Cardinality(words2)
    IN  IF words1 = {} \/ words2 = {} THEN Zero
        ELSE IF common_words = {} THEN Zero
        ELSE Rat(Cardinality(common_words), IF n1 >= n2 THEN n1 ELSE n2)

base_score(title1, title2) ==
    ratio(normalize_title(title1), normalize_title(title2))

clean_score(title1, title2) ==
    ratio(remove_articles(normalize_title(title1)),
          remove_articles(normalize_title(title2)))

keyword_score(title1, title2) ==
    keyword_matching(normalize_title(title1), normalize_title(title2))

\* x occurs in y as a block of consecutive characters (Python's x in y)
IsSubstring(x, y) ==
    \E i \in 0..(Len(y) - Len(x)) : SubSeq(y, i + 1, i + Len(x)) = x

\* the matcher with the containment step of the design: 0.9 when the first
\* title is contained in the second, 0.85 the other way round
advanced_with_containment(title1, title2) ==
    IF IsSubstring(Strip(Lower(title1)), Strip(Lower(title2))) THEN Rat(9, 10)
    ELSE IF IsSubstring(Strip(Lower(title2)), Strip(Lower(title1)))
         THEN Rat(17, 20)
    ELSE Max3(base_score(title1, title2), clean_score(title1, title2),
              keyword_score(title1, title2))

advanced_title_matching(title1, title2) ==
    Max3(base_score(title1, title2), clean_score(title1, title2),
         keyword_score(title1, title2))

\* the test of the "Matching esatto" branch
ExactEqual(watchlist_title, cinema_title) ==
    Strip(Lower(watchlist_title)) = Strip(Lower(cinema_title))

\* the scoring expression comparing and measuring the raw strings
MatchScoreRaw(watchlist_title, cinema_title) ==
    IF watchlist_title = cinema_title THEN One
    ELSE ratio(watchlist_title, cinema_title)

\* match_score of one (watchlist title, cinema title) pair
MatchScore(watchlist_title, cinema_title) ==
    IF ExactEqual(watchlist_title, cinema_title) THEN One
    ELSE advanced_title_matching(watchlist_title, cinema_title)

(***************************************************************************)
(* Titles of the model                                                     *)
(***************************************************************************)
Empty == <<>>
Ab == <<"a","b">>
Blank == <<" "," "," ">>
Dune == <<"D","u","n","e">>
DuneUpper == <<" ","D","U","N","E"," ">>
DuneBang == <<"D","u","n","e","!">>
DuneTwo == <<"D","u","n","e"," ","T","w","o">>
Batman == <<"B","a","t","m","a","n">>
TheBatman == <<"T","h","e"," ","B","a","t","m","a","n">>
Tide == <<"t","i","d","e">>
Diet == <<"d","i","e","t">>
DunePartTwo == <<"D","u","n","e"," ","P","a","r","t"," ","T","w","o">>
Dots == <<".",".",".">>

\* a watchlist entry as get_watchlist_films builds it; is_dict is FALSE for an
\* element of the list that is not a dict
Film(title, alts) ==
    [is_dict |-> TRUE, title |-> title, alternative_titles |-> alts]

NotADict == [is_dict |-> FALSE, title |-> Empty, alternative_titles |-> <<>>]

WatchlistEntries ==
    { Film(Dune, <<>>),
      Film(Blank, <<>>),
      Film(Empty, <<Ab, DuneTwo, Dune>>),
      NotADict }

CinemaTitles == {Empty, Dune, DuneUpper, DuneBang, DuneTwo}

MaxWatch == 2
MaxCinema == 2

RECURSIVE SeqsUpTo(_, _)
SeqsUpTo(S, n) ==
    IF n = 0 THEN {<<>>}
    ELSE LET shorter == SeqsUpTo(S, n - 1)
         IN  shorter \cup {Append(q, x) : q \in shorter, x \in S}

WatchlistTitles == {Empty, Ab, Blank, Dune, DuneTwo}

\* match_score of every pair of titles of the model, computed once
ScoreTable ==
    [p \in WatchlistTitles \X CinemaTitles |-> MatchScore(p[1], p[2])]

Threshold == Rat(3, 5)

(***************************************************************************)
(* State                                                                   *)
(***************************************************************************)
VARIABLES
    pc,               \* position in find_matches
    watchlist_films,  \* argument: sequence of watchlist entries
    cinema_films,     \* argument: sequence of listing titles
    wi,               \* index of the watchlist entry of the outer for loop
    titles_to_check,  \* the entry's primary title followed by its alternatives
    ci,               \* index of the listing of the cinema_films loop
    ti,               \* index of the title of the titles_to_check loop
    best_match,       \* <<>> for None, else <<the match record>>
    best_score,
    matches,          \* the list find_matches returns
    match_entry,      \* for each element of matches, the index of its entry
    scored,           \* the watchlist titles that reached the scoring branch
    call,             \* <<>>, or <<the arguments and results of a scoring call>>
    rss_feed,         \* what feedparser.parse of the RSS URL gives
    web_page,         \* what the request for the watchlist page gives
    listings_page,    \* what the request for the listings page gives
    env_token,        \* TELEGRAM_BOT_TOKEN is set in the environment
    env_chat,         \* TELEGRAM_CHAT_ID is set in the environment
    telegram_post,    \* what the POST to the Telegram API gives
    self,             \* <<>>, or <<the fields of the constructed checker>>
    failed,           \* the fetches that ended in their except branch
    report,           \* what run printed about its result
    trace,            \* the operations performed, in order
    notifications,    \* the channels the matches were reported through
    exception         \* <<>>, or <<the exception that ended the program>>

worldVars == <<rss_feed, web_page, listings_page, env_token, env_chat,
               telegram_post>>

runVars == <<self, failed, report, trace, notifications, exception>>

matcherVars == <<pc, watchlist_films, cinema_films, wi, titles_to_check, ci,
                 ti, best_match, best_score, matches, match_entry, scored>>

vars == <<matcherVars, call, worldVars, runVars>>

\* nothing is fetched and no checker exists
NoProgram ==
    /\ rss_feed = [raises |-> FALSE, entries |-> <<>>]
    /\ web_page = [raises |-> FALSE, films |-> <<>>]
    /\ listings_page = [raises |-> FALSE, titles |-> <<>>]
    /\ env_token = FALSE
    /\ env_chat = FALSE
    /\ telegram_post = "ok"
    /\ self = <<>>
    /\ failed = {}
    /\ report = "none"
    /\ trace = <<>>
    /\ notifications = <<>>
    /\ exception = <<>>

(***************************************************************************)
(* find_matches                                                            *)
(***************************************************************************)
Init ==
    /\ watchlist_films \in SeqsUpTo(WatchlistEntries, MaxWatch)
    /\ cinema_films \in SeqsUpTo(CinemaTitles, MaxCinema)
    /\ pc = "for_watchlist"
    /\ wi = 1
    /\ titles_to_check = <<>>
    /\ ci = 1
    /\ ti = 1
    /\ best_match = <<>>
    /\ best_score = Zero
    /\ matches = <<>>
    /\ match_entry = <<>>
    /\ scored = {}
    /\ call = <<>>
    /\ NoProgram

\* if not isinstance(watchlist_film, dict): continue
SkipNonDict ==
    /\ pc = "for_watchlist"
    /\ wi <= Len(watchlist_films)
    /\ ~watchlist_films[wi].is_dict
    /\ wi' = wi + 1
    /\ UNCHANGED <<pc, watchlist_films, cinema_films, titles_to_check, ci, ti,
                   best_match, best_score, matches, match_entry, scored, call, worldVars, runVars>>

\* titles_to_check, best_match = None, best_score = 0
BeginFilm ==
    /\ pc = "for_watchlist"
    /\ wi <= Len(watchlist_films)
    /\ watchlist_films[wi].is_dict
    /\ titles_to_check' = <<watchlist_films[wi].title>>
                            \o watchlist_films[wi].alternative_titles
    /\ best_match' = <<>>
    /\ best_score' = Zero
    /\ ci' = 1
    /\ ti' = 1
    /\ pc' = "for_cinema"
    /\ UNCHANGED <<watchlist_films, cinema_films, wi, matches, match_entry,
                   scored, call, worldVars, runVars>>

\* the position after one pass of the inner loop body
Advance ==
    IF ti < Len(titles_to_check)
    THEN ti' = ti + 1 /\ ci' = ci
    ELSE ti' = 1 /\ ci' = ci + 1

\* if not watchlist_title or len(watchlist_title) < 3
Skipped(watchlist_title) ==
    watchlist_title = <<>> \/ Len(watchlist_title) < 3

\* if not watchlist_title or len(watchlist_title) < 3: continue
SkipTitle ==
    /\ pc = "for_cinema"
    /\ ci <= Len(cinema_films)
    /\ Skipped(titles_to_check[ti])
    /\ Advance
    /\ UNCHANGED <<pc, watchlist_films, cinema_films, wi, titles_to_check,
                   best_match, best_score, matches, match_entry, scored, call, worldVars, runVars>>

\* 'exact' if match_score == 1.0 else 'advanced'
MatchType(match_score) == IF match_score = One THEN "exact" ELSE "advanced"

\* the test with >= in place of the first >
BetterOrEqual(match_score, best) ==
    ~Gt(best, match_score) /\ Gt(match_score, Threshold)

\* the test without the comparison to best_score
AboveThreshold(match_score, best) == Gt(match_score, Threshold)

\* if match_score > best_score and match_score > 0.6
Better(match_score, best) == Gt(match_score, best) /\ Gt(match_score, Threshold)

\* one pass of the inner loop body for a title that is not skipped
ScorePair ==
    /\ pc = "for_cinema"
    /\ ci <= Len(cinema_films)
    /\ ~Skipped(titles_to_check[ti])
    /\ LET watchlist_title == titles_to_check[ti]
           cinema_title == cinema_films[ci]
           match_score == ScoreTable[<<watchlist_title, cinema_title>>]
       IN  /\ scored' = scored \cup {watchlist_title}
           /\ IF Better(match_score, best_score)
              THEN /\ best_match' =
                        << [ watchlist_film |->
                               [ title |-> watchlist_films[wi].title,
                                 matched_title |-> watchlist_title ],
                             cinema_film |->
                               [ index |-> ci, title |-> cinema_title ],
                             match_score |-> match_score,
                             match_type |-> MatchType(match_score) ] >>
                   /\ best_score' = match_score
              ELSE UNCHANGED <<best_match, best_score>>
    /\ Advance
    /\ UNCHANGED <<pc, watchlist_films, cinema_films, wi, titles_to_check,
                   matches, match_entry, call, worldVars, runVars>>

\* if best_match: matches.append(best_match)
EndFilm ==
    /\ pc = "for_cinema"
    /\ ci > Len(cinema_films)
    /\ IF best_match # <<>>
       THEN /\ matches' = matches \o best_match
            /\ match_entry' = Append(match_entry, wi)
       ELSE UNCHANGED <<matches, match_entry>>
    /\ wi' = wi + 1
    /\ pc' = "for_watchlist"
    /\ UNCHANGED <<watchlist_films, cinema_films, titles_to_check, ci, ti,
                   best_match, best_score, scored, call, worldVars, runVars>>

\* return matches
Return ==
    /\ pc = "for_watchlist"
    /\ wi > Len(watchlist_films)
    /\ pc' = "returned"
    /\ UNCHANGED <<watchlist_films, cinema_films, wi, titles_to_check, ci, ti,
                   best_match, best_score, matches, match_entry, scored, call, worldVars, runVars>>

Next == SkipNonDict \/ BeginFilm \/ SkipTitle \/ ScorePair \/ EndFilm \/ Return

Spec == Init /\ [][Next]_vars

(***************************************************************************)
(* Properties of find_matches (Spec)                                       *)
(***************************************************************************)
\* the title variants of an entry: the primary title, then the alternatives
Variants(e) == <<e.title>> \o e.alternative_titles

\* a title the design calls usable: more than 2 characters after trimming
UsableTitle(title) == Len(Strip(title)) > 2

\* the watchlist entries, once find_matches has returned its output
DoneEntries ==
    IF pc = "returned"
    THEN {k \in 1..Len(watchlist_films) : watchlist_films[k].is_dict}
    ELSE {}

ResultsFor(k) == {m \in 1..Len(matches) : match_entry[m] = k}

\* the (listing, variant) index pairs of entry k, and their iteration order
Pairs(k) ==
    (1..Len(cinema_films)) \X (1..Len(Variants(watchlist_films[k])))

Before(p, q) == p[1] < q[1] \/ (p[1] = q[1] /\ p[2] < q[2])

VariantOf(k, p) == Variants(watchlist_films[k])[p[2]]

PairScore(k, p) == ScoreTable[<<VariantOf(k, p), cinema_films[p[1]]>>]

\* the pairs of entry k that the loop scores
ScoredPairs(k) == {p \in Pairs(k) : ~Skipped(VariantOf(k, p))}

\* the pair a match record was built from
IsPair(m, k, p) ==
    /\ m.cinema_film.index = p[1]
    /\ m.watchlist_film.matched_title = VariantOf(k, p)

\* C1 as stated: for every entry the output holds at most one MatchResult; it
\* holds one exactly when the maximum score over the usable variants and all
\* listings exceeds 0.6, and the kept score is that maximum.
C1_BestOfSelection ==
    \A k \in DoneEntries :
        LET usable == {p \in Pairs(k) : UsableTitle(VariantOf(k, p))}
        IN  /\ Cardinality(ResultsFor(k)) <= 1
            /\ (ResultsFor(k) # {}) <=>
                   \E p \in usable : Gt(PairScore(k, p), Threshold)
            /\ \A m \in ResultsFor(k) :
                   /\ \E p \in usable : PairScore(k, p) = matches[m].match_score
                   /\ \A p \in usable :
                          ~Gt(PairScore(k, p), matches[m].match_score)

\* the selection over the pairs that pass the guard of the inner loop: at most
\* one result per entry, present exactly when the greatest score of the
\* scored pairs exceeds 0.6, and carrying that score
BestOfScoredPairs ==
    \A k \in DoneEntries :
        LET all == ScoredPairs(k)
        IN  /\ Cardinality(ResultsFor(k)) <= 1
            /\ (ResultsFor(k) # {}) <=>
                   \E p \in all : Gt(PairScore(k, p), Threshold)
            /\ \A m \in ResultsFor(k) :
                   /\ \E p \in all : PairScore(k, p) = matches[m].match_score
                   /\ \A p \in all :
                          ~Gt(PairScore(k, p), matches[m].match_score)

\* C3 as stated: a variant that is empty or has at most 2 characters after
\* trimming is never scored and never the matched title of a MatchResult; an
\* entry whose only title is empty after trimming yields no MatchResult.
C3_UnusableSkipped ==
    /\ \A t \in scored : UsableTitle(t)
    /\ \A m \in 1..Len(matches) :
           UsableTitle(matches[m].watchlist_film.matched_title)
    /\ \A k \in DoneEntries :
           /\ Strip(watchlist_films[k].title) = <<>>
           /\ watchlist_films[k].alternative_titles = <<>>
           => ResultsFor(k) = {}

\* some listing equals a usable variant of entry k after folding and trimming
HasExactListing(k) ==
    \E p \in Pairs(k) :
        /\ UsableTitle(VariantOf(k, p))
        /\ ExactEqual(VariantOf(k, p), cinema_films[p[1]])

\* C4 as stated: if some listing equals a usable variant after case folding and
\* trimming, the kept MatchResult has score 1.0 and its listing is one that is
\* exactly equal (folded, trimmed) to the matched variant.
C4_ExactListingKept ==
    \A k \in DoneEntries :
        HasExactListing(k) =>
            \E m \in ResultsFor(k) :
                /\ matches[m].match_score = One
                /\ ExactEqual(matches[m].watchlist_film.matched_title,
                              matches[m].cinema_film.title)

\* C4 amended: if some listing equals a usable variant after case folding and
\* trimming, the kept MatchResult has score 1.0 and is the first scored pair,
\* in iteration order, whose score is 1.0; that pair may be a fuzzy one.
C4_FirstPerfectKept ==
    \A k \in DoneEntries :
        HasExactListing(k) =>
            \E m \in ResultsFor(k) :
                /\ matches[m].match_score = One
                /\ \E p \in ScoredPairs(k) :
                       /\ IsPair(matches[m], k, p)
                       /\ PairScore(k, p) = One
                       /\ \A q \in ScoredPairs(k) :
                              Before(q, p) => PairScore(k, q) # One

C4_Witness ==
    \E k \in DoneEntries :
        /\ HasExactListing(k)
        /\ \E m \in ResultsFor(k) :
               /\ matches[m].match_score = One
               /\ ~ExactEqual(matches[m].watchlist_film.matched_title,
                              matches[m].cinema_film.title)

\* C5 as stated: a MatchResult has kind 'exact' if and only if its matched
\* title and its listing title are equal after case folding and trimming, and
\* kind 'advanced' otherwise.
C5_KindFaithful ==
    \A m \in 1..Len(matches) :
        /\ matches[m].match_type \in {"exact", "advanced"}
        /\ (matches[m].match_type = "exact") <=>
               ExactEqual(matches[m].watchlist_film.matched_title,
                          matches[m].cinema_film.title)

\* p is the first pair of S, in iteration order, with the greatest score of S
FirstMax(k, S, p) ==
    /\ p \in S
    /\ \A q \in S : ~Gt(PairScore(k, q), PairScore(k, p))
    /\ \A q \in S : Before(q, p) => PairScore(k, q) # PairScore(k, p)

\* C6: when several pairs of an entry share the maximum score, the pair kept
\* in the output is the first of them in iteration order (listings outer,
\* variants inner); a later pair with an equal score never replaces it.
C6_FirstMaxKept ==
    \A k \in DoneEntries : \A m \in ResultsFor(k) :
        LET all == ScoredPairs(k)
        IN  \E p \in all :
                /\ IsPair(matches[m], k, p)
                /\ matches[m].match_score = PairScore(k, p)
                /\ FirstMax(k, all, p)

C6_Witness ==
    \E k \in DoneEntries : \E m \in ResultsFor(k) :
        \E p \in ScoredPairs(k), q \in ScoredPairs(k) :
            /\ IsPair(matches[m], k, p)
            /\ Before(p, q)
            /\ PairScore(k, q) = matches[m].match_score
            /\ PairScore(k, p) = matches[m].match_score

(***************************************************************************)
(* The scoring expression of find_matches applied to one pair of titles    *)
(***************************************************************************)
ScoreTitles ==
    {Empty, Ab, Blank, Dune, DuneUpper, DuneBang, DuneTwo, DunePartTwo,
     Batman, TheBatman, Tide, Diet, Dots}

InitScore ==
    /\ watchlist_films = <<>>
    /\ cinema_films = <<>>
    /\ pc = "score"
    /\ wi = 1
    /\ titles_to_check = <<>>
    /\ ci = 1
    /\ ti = 1
    /\ best_match = <<>>
    /\ best_score = Zero
    /\ matches = <<>>
    /\ match_entry = <<>>
    /\ scored = {}
    /\ call = <<>>
    /\ NoProgram

\* lines 350-356 for one watchlist_title and one cinema_title; the three
\* measures of advanced_title_matching are recorded beside the result
ScoreCall(a, b) ==
    /\ pc = "score"
    /\ pc' = "scored"
    /\ call' = << [ a |-> a, b |-> b,
                    exact |-> ExactEqual(a, b),
                    base |-> base_score(a, b),
                    clean |-> clean_score(a, b),
                    keyword |-> keyword_score(a, b),
                    score |-> MatchScore(a, b),
                    swapped |-> MatchScore(b, a),
                    keyword_swapped |-> keyword_score(b, a) ] >>
    /\ UNCHANGED <<watchlist_films, cinema_films, wi, titles_to_check, ci, ti,
                   best_match, best_score, matches, match_entry, scored,
                   worldVars, runVars>>

NextScore == \E a \in ScoreTitles, b \in ScoreTitles : ScoreCall(a, b)

SpecScore == InitScore /\ [][NextScore]_vars

(***************************************************************************)
(* normalize_title applied to one title                                    *)
(***************************************************************************)
\* the characters of the titles: a capital, a small letter, two kinds of
\* whitespace and a punctuation character
NormChars == {"D", "u", " ", "\t", "-"}

MaxTitleLen == 4

NormTitles == SeqsUpTo(NormChars, MaxTitleLen)

InitNormalize ==
    /\ watchlist_films = <<>>
    /\ cinema_films = <<>>
    /\ pc = "normalize"
    /\ wi = 1
    /\ titles_to_check = <<>>
    /\ ci = 1
    /\ ti = 1
    /\ best_match = <<>>
    /\ best_score = Zero
    /\ matches = <<>>
    /\ match_entry = <<>>
    /\ scored = {}
    /\ call = <<>>
    /\ NoProgram

\* normalized = self.normalize_title(title), and the function applied once
\* more to its own result
NormalizeCall(title) ==
    /\ pc = "normalize"
    /\ pc' = "normalized"
    /\ call' = << [ title |-> title,
                    normalized |-> normalize_title(title),
                    again |-> normalize_title(normalize_title(title)) ] >>
    /\ UNCHANGED <<watchlist_films, cinema_films, wi, titles_to_check, ci, ti,
                   best_match, best_score, matches, match_entry, scored,
                   worldVars, runVars>>

NextNormalize == \E title \in NormTitles : NormalizeCall(title)

SpecNormalize == InitNormalize /\ [][NextNormalize]_vars

(***************************************************************************)
(* find_matches as a function of its two arguments                         *)
(***************************************************************************)
MatchRecord(film, watchlist_title, c, cinema_title, match_score) ==
    [ watchlist_film |-> [ title |-> film.title,
                           matched_title |-> watchlist_title ],
      cinema_film |-> [ index |-> c, title |-> cinema_title ],
      match_score |-> match_score,
      match_type |-> MatchType(match_score) ]

\* the two nested loops over cinema_films and titles_to_check, from the pair
\* (c, t) on; best is <<>> or <<the best match so far>>
RECURSIVE ScanFrom(_, _, _, _, _)
ScanFrom(film, listings, c, t, best) ==
    IF c > Len(listings) THEN best
    ELSE LET titles == <<film.title>> \o film.alternative_titles
             watchlist_title == titles[t]
             score == ScoreTable[<<watchlist_title, listings[c]>>]
             so_far == IF best = <<>> THEN Zero ELSE best[1].match_score
             kept == IF ~Skipped(watchlist_title) /\ Better(score, so_far)
                     THEN <<MatchRecord(film, watchlist_title, c, listings[c],
                                        score)>>
                     ELSE best
         IN  IF t < Len(titles)
             THEN ScanFrom(film, listings, c, t + 1, kept)
             ELSE ScanFrom(film, listings, c + 1, 1, kept)

RECURSIVE find_matches(_, _)
find_matches(films, listings) ==
    IF films = <<>> THEN <<>>
    ELSE (IF Head(films).is_dict
          THEN ScanFrom(Head(films), listings, 1, 1, <<>>)
          ELSE <<>>)
         \o find_matches(Tail(films), listings)

(***************************************************************************)
(* The fetchers                                                            *)
(***************************************************************************)
RssFeeds ==
    { [raises |-> TRUE, entries |-> <<>>],
      [raises |-> FALSE, entries |-> <<>>],
      [raises |-> FALSE, entries |-> <<[title |-> Dune, rated |-> TRUE]>>],
      [raises |-> FALSE,
       entries |-> <<[title |-> DuneTwo, rated |-> TRUE],
                     [title |-> Dune, rated |-> FALSE]>>] }

WebLimit == 30
CinemaLimit == 150

\* the last page holds one film more than the scraper returns
WebPages ==
    { [raises |-> TRUE, films |-> <<>>],
      [raises |-> FALSE, films |-> [i \in 1..(WebLimit + 1) |-> Film(Dune, <<>>)]],
      [raises |-> FALSE, films |-> <<>>],
      [raises |-> FALSE, films |-> <<Film(Empty, <<Ab, DuneTwo, Dune>>)>>],
      [raises |-> FALSE, films |-> <<Film(Blank, <<>>), Film(Dune, <<>>)>>] }

ListingsPages ==
    { [raises |-> TRUE, titles |-> <<>>],
      [raises |-> FALSE, titles |-> <<>>],
      [raises |-> FALSE, titles |-> <<Empty>>],
      [raises |-> FALSE, titles |-> <<DuneBang, Dune, DuneBang>>],
      [raises |-> FALSE, titles |-> <<DuneTwo>>] }

Prefix(q, n) == SubSeq(q, 1, IF Len(q) < n THEN Len(q) ELSE n)

\* the films of the RSS branch: one per feed entry that carries no rating.
\* A feed entry of the model holds the cleaned title and whether the raw
\* title carries a star.
RssFilms(feed) ==
    LET unrated == SelectSeq(feed.entries, LAMBDA e : ~e.rated)
    IN  [i \in 1..Len(unrated) |-> Film(unrated[i].title, <<>>)]

\* the RSS branch returns its films: no exception, and at least one film
RssReturns(feed) == ~feed.raises /\ RssFilms(feed) # <<>>

\* get_watchlist_from_web: films[:30], and [] from the except branch
get_watchlist_from_web(page) ==
    IF page.raises THEN <<>> ELSE Prefix(page.films, WebLimit)

get_watchlist_films(feed, page) ==
    IF RssReturns(feed) THEN RssFilms(feed) ELSE get_watchlist_from_web(page)

\* the duplicate removal of get_roma_cinema_films: the first occurrence of each
\* title of more than 2 characters
RECURSIVE UniqueFilms(_, _)
UniqueFilms(titles, seen_titles) ==
    IF titles = <<>> THEN <<>>
    ELSE IF Head(titles) \notin seen_titles /\ Len(Head(titles)) > 2
         THEN <<Head(titles)>>
              \o UniqueFilms(Tail(titles), seen_titles \cup {Head(titles)})
         ELSE UniqueFilms(Tail(titles), seen_titles)

\* get_roma_cinema_films: all_films stays empty when the request or the
\* extraction raises
get_roma_cinema_films(page) ==
    Prefix(UniqueFilms(IF page.raises THEN <<>> ELSE page.titles, {}),
           CinemaLimit)

(***************************************************************************)
(* The program: the class as the interpreter builds it, and __main__       *)
(***************************************************************************)
\* the attributes the class statement binds: the defs of its body
ClassAttributes ==
    {"__init__", "get_watchlist_films", "get_watchlist_from_web",
     "find_alternative_titles", "clean_title", "get_roma_cinema_films"}

\* the defs at module level, after the class statement has ended
ModuleFunctions == {"extract_comingsoon_films", "extract_comingsoon_fallback"}

\* the defs nested in the body of extract_comingsoon_fallback, after its
\* return statement
NestedDefs ==
    {"find_matches", "advanced_title_matching", "normalize_title",
     "remove_articles", "keyword_matching", "send_telegram_notification",
     "print_matches", "run"}

\* what the sites and the environment hold when the program starts
World ==
    /\ rss_feed \in RssFeeds
    /\ web_page \in WebPages
    /\ listings_page \in ListingsPages
    /\ env_token \in BOOLEAN
    /\ env_chat \in BOOLEAN
    /\ telegram_post \in {"ok", "raises", "error_status"}

InitMain ==
    /\ World
    /\ pc = "main"
    /\ self = <<>>
    /\ failed = {}
    /\ report = "none"
    /\ trace = <<>>
    /\ notifications = <<>>
    /\ exception = <<>>
    /\ watchlist_films = <<>>
    /\ cinema_films = <<>>
    /\ wi = 1
    /\ titles_to_check = <<>>
    /\ ci = 1
    /\ ti = 1
    /\ best_match = <<>>
    /\ best_score = Zero
    /\ matches = <<>>
    /\ match_entry = <<>>
    /\ scored = {}
    /\ call = <<>>

loopVars == <<wi, titles_to_check, ci, ti, best_match, best_score,
              match_entry, scored, call>>

\* checker = CinemaWatchlistChecker()
Construct ==
    /\ pc = "main"
    /\ self' = << [ telegram_bot_token |-> env_token,
                    telegram_chat_id |-> env_chat ] >>
    /\ pc' = "constructed"
    /\ UNCHANGED <<watchlist_films, cinema_films, matches, loopVars, worldVars,
                   failed, report, trace, notifications, exception>>

\* checker.run(): the attribute is looked up on the instance and its class
CallRun ==
    /\ pc = "constructed"
    /\ IF "run" \in ClassAttributes
       THEN pc' = "run" /\ UNCHANGED exception
       ELSE pc' = "crashed" /\ exception' = <<"AttributeError">>
    /\ UNCHANGED <<watchlist_films, cinema_films, matches, loopVars, worldVars,
                   self, failed, report, trace, notifications>>

NextMain == Construct \/ CallRun

SpecMain == InitMain /\ [][NextMain]_vars

(***************************************************************************)
(* run, applied to a constructed checker; a call self.f(...) in a body is  *)
(* the def f of the file.  Every callee catches its own exceptions, so the *)
(* except branch of run is never entered by a fetch or a notification.     *)
(***************************************************************************)
InitRun == InitMain

\* the call of run on the checker
EnterRun ==
    /\ pc = "constructed"
    /\ pc' = "run"
    /\ UNCHANGED <<watchlist_films, cinema_films, matches, loopVars, worldVars,
                   runVars>>

\* watchlist_films = self.get_watchlist_films(), RSS branch taken
WatchlistFromRss ==
    /\ pc = "run"
    /\ RssReturns(rss_feed)
    /\ watchlist_films' = get_watchlist_films(rss_feed, web_page)
    /\ trace' = Append(trace, "watchlist_fetch")
    /\ pc' = "have_watchlist"
    /\ UNCHANGED <<cinema_films, matches, loopVars, worldVars, self, failed,
                   report, notifications, exception>>

\* watchlist_films = self.get_watchlist_films(), falling back to the scraper
WatchlistFromWeb ==
    /\ pc = "run"
    /\ ~RssReturns(rss_feed)
    /\ watchlist_films' = get_watchlist_films(rss_feed, web_page)
    /\ failed' = failed \cup (IF rss_feed.raises THEN {"rss"} ELSE {})
                        \cup (IF web_page.raises THEN {"watchlist"} ELSE {})
    /\ trace' = Append(trace, "watchlist_fetch")
    /\ pc' = "have_watchlist"
    /\ UNCHANGED <<cinema_films, matches, loopVars, worldVars, self, report,
                   notifications, exception>>

\* if not watchlist_films: print "Nessun film trovato nella watchlist"; return
NoWatchlist ==
    /\ pc = "have_watchlist"
    /\ watchlist_films = <<>>
    /\ report' = "no_watchlist_films"
    /\ pc' = "done"
    /\ UNCHANGED <<watchlist_films, cinema_films, matches, loopVars, worldVars,
                   self, failed, trace, notifications, exception>>

\* cinema_films = self.get_roma_cinema_films()
FetchListings ==
    /\ pc = "have_watchlist"
    /\ watchlist_films # <<>>
    /\ cinema_films' = get_roma_cinema_films(listings_page)
    /\ failed' = failed \cup (IF listings_page.raises THEN {"listings"} ELSE {})
    /\ trace' = Append(trace, "listings_fetch")
    /\ pc' = "have_listings"
    /\ UNCHANGED <<watchlist_films, matches, loopVars, worldVars, self, report,
                   notifications, exception>>

\* if not cinema_films: print "Nessun film trovato nei cinema di Roma"; return
NoListings ==
    /\ pc = "have_listings"
    /\ cinema_films = <<>>
    /\ report' = "no_cinema_films"
    /\ pc' = "done"
    /\ UNCHANGED <<watchlist_films, cinema_films, matches, loopVars, worldVars,
                   self, failed, trace, notifications, exception>>

\* matches = self.find_matches(watchlist_films, cinema_films)
FindMatches ==
    /\ pc = "have_listings"
    /\ cinema_films # <<>>
    /\ matches' = find_matches(watchlist_films, cinema_films)
    /\ trace' = Append(trace, "find_matches")
    /\ pc' = "have_matches"
    /\ UNCHANGED <<watchlist_films, cinema_films, loopVars, worldVars, self,
                   failed, report, notifications, exception>>

\* if not self.telegram_bot_token or not self.telegram_chat_id
TelegramConfigured == self[1].telegram_bot_token /\ self[1].telegram_chat_id

\* self.send_telegram_notification(matches), Telegram not configured:
\* print_matches
NotifyConsole ==
    /\ pc = "have_matches"
    /\ ~TelegramConfigured
    /\ notifications' = Append(notifications, "console")
    /\ trace' = Append(trace, "notify")
    /\ report' = "notified"
    /\ pc' = "done"
    /\ UNCHANGED <<watchlist_films, cinema_films, matches, loopVars, worldVars,
                   self, failed, exception>>

\* send_telegram_notification whose except branch only prints the error
NotifyTelegramNoFallback ==
    /\ pc = "have_matches"
    /\ TelegramConfigured
    /\ notifications' =
           IF telegram_post = "ok" THEN Append(notifications, "telegram")
           ELSE notifications
    /\ failed' = failed \cup (IF telegram_post = "ok" THEN {} ELSE {"telegram"})
    /\ trace' = Append(trace, "notify")
    /\ report' = "notified"
    /\ pc' = "done"
    /\ UNCHANGED <<watchlist_films, cinema_films, matches, loopVars, worldVars,
                   self, exception>>

\* self.send_telegram_notification(matches), Telegram configured: the POST,
\* and print_matches from the except branch when requests.post raises or
\* raise_for_status raises on an error status
NotifyTelegram ==
    /\ pc = "have_matches"
    /\ TelegramConfigured
    /\ notifications' =
           Append(notifications,
                  IF telegram_post = "ok" THEN "telegram" ELSE "console")
    /\ failed' = failed \cup (IF telegram_post = "ok" THEN {} ELSE {"telegram"})
    /\ trace' = Append(trace, "notify")
    /\ report' = "notified"
    /\ pc' = "done"
    /\ UNCHANGED <<watchlist_films, cinema_films, matches, loopVars, worldVars,
                   self, exception>>

NextRun ==
    \/ Construct
    \/ EnterRun
    \/ WatchlistFromRss
    \/ WatchlistFromWeb
    \/ NoWatchlist
    \/ FetchListings
    \/ NoListings
    \/ FindMatches
    \/ NotifyConsole
    \/ NotifyTelegram

SpecRun == InitRun /\ [][NextRun]_vars

(***************************************************************************)
(* get_watchlist_films, step by step: the try block around the RSS feed,   *)
(* then the call of get_watchlist_from_web                                 *)
(***************************************************************************)
\* the entries of a feed: a rated film, and two films without rating
FeedEntries ==
    { [title |-> Dune, rated |-> TRUE],
      [title |-> Dune, rated |-> FALSE],
      [title |-> DuneTwo, rated |-> FALSE] }

MaxEntries == 2

\* raises: feedparser.parse raises, or the loop raises after it has gone
\* through the entries
WatchlistFeeds ==
    [raises : BOOLEAN, entries : SeqsUpTo(FeedEntries, MaxEntries)]

InitWatchlist ==
    /\ rss_feed \in WatchlistFeeds
    /\ web_page \in WebPages
    /\ listings_page = [raises |-> FALSE, titles |-> <<>>]
    /\ env_token = FALSE
    /\ env_chat = FALSE
    /\ telegram_post = "ok"
    /\ pc = "get_watchlist_films"
    /\ self = <<>>
    /\ failed = {}
    /\ report = "none"
    /\ trace = <<>>
    /\ notifications = <<>>
    /\ exception = <<>>
    /\ watchlist_films = <<>>
    /\ cinema_films = <<>>
    /\ wi = 1
    /\ titles_to_check = <<>>
    /\ ci = 1
    /\ ti = 1
    /\ best_match = <<>>
    /\ best_score = Zero
    /\ matches = <<>>
    /\ match_entry = <<>>
    /\ scored = {}
    /\ call = <<>>

\* the try block without the test "if films:": the films of the feed are
\* returned whenever nothing raised
TryRssAlwaysReturns ==
    /\ pc = "get_watchlist_films"
    /\ trace' = Append(trace, "rss")
    /\ IF ~rss_feed.raises
       THEN /\ watchlist_films' = RssFilms(rss_feed)
            /\ pc' = "returned"
            /\ UNCHANGED failed
       ELSE /\ pc' = "web_fallback"
            /\ failed' = failed \cup {"rss"}
            /\ UNCHANGED watchlist_films
    /\ UNCHANGED <<cinema_films, matches, loopVars, worldVars, self, report,
                   notifications, exception>>

\* the try block: feedparser.parse, the loop over the entries, and
\* "if films: return films"; an exception is caught and printed
TryRss ==
    /\ pc = "get_watchlist_films"
    /\ trace' = Append(trace, "rss")
    /\ IF RssReturns(rss_feed)
       THEN /\ watchlist_films' = RssFilms(rss_feed)
            /\ pc' = "returned"
            /\ UNCHANGED failed
       ELSE /\ pc' = "web_fallback"
            /\ failed' = failed \cup (IF rss_feed.raises THEN {"rss"} ELSE {})
            /\ UNCHANGED watchlist_films
    /\ UNCHANGED <<cinema_films, matches, loopVars, worldVars, self, report,
                   notifications, exception>>

\* return self.get_watchlist_from_web()
ScrapeWeb ==
    /\ pc = "web_fallback"
    /\ trace' = Append(trace, "web")
    /\ watchlist_films' = get_watchlist_from_web(web_page)
    /\ failed' = failed \cup (IF web_page.raises THEN {"watchlist"} ELSE {})
    /\ pc' = "returned"
    /\ UNCHANGED <<cinema_films, matches, loopVars, worldVars, self, report,
                   notifications, exception>>

NextWatchlist == TryRss \/ ScrapeWeb

SpecWatchlist == InitWatchlist /\ [][NextWatchlist]_vars

(***************************************************************************)
(* Properties of the scoring expression (SpecScore)                        *)
(***************************************************************************)
Folded(title) == Strip(Lower(title))

\* the two folded titles are not empty, differ, and one is a substring of the
\* other
Containment(a, b) ==
    /\ Folded(a) # <<>>
    /\ Folded(b) # <<>>
    /\ Folded(a) # Folded(b)
    /\ IsSubstring(Folded(a), Folded(b)) \/ IsSubstring(Folded(b), Folded(a))

C7_ExactIdentity ==
    \A k \in 1..Len(call) :
        Strip(Lower(call[k].a)) = Strip(Lower(call[k].b)) => call[k].score = One

C7_Witness ==
    \E k \in 1..Len(call) :
        /\ call[k].a = Dune
        /\ call[k].b = DuneUpper
        /\ call[k].score = One

\* neither folded title is a strict substring of the other
NoStrictSubstring(a, b) ==
    \/ Folded(a) = Folded(b)
    \/ ~IsSubstring(Folded(a), Folded(b)) /\ ~IsSubstring(Folded(b), Folded(a))

\* C8 as stated: when neither folded title is a strict substring of the other,
\* the score of the pair equals the score of the swapped pair.
C8_ScoreSymmetric ==
    \A k \in 1..Len(call) :
        NoStrictSubstring(call[k].a, call[k].b) =>
            call[k].score = call[k].swapped

\* C8 amended: the keyword-overlap measure takes the same value with the
\* arguments swapped, and the score is 1.0 for a pair exactly when it is 1.0
\* for the swapped pair; the two matching ratios depend on the argument order.
C8_SymmetricParts ==
    \A k \in 1..Len(call) :
        /\ call[k].keyword = call[k].keyword_swapped
        /\ (call[k].score = One) <=> (call[k].swapped = One)

C8_Witness ==
    \E k \in 1..Len(call) :
        /\ call[k].a = Tide
        /\ call[k].b = Diet
        /\ call[k].score = Rat(1, 4)
        /\ call[k].swapped = Rat(1, 2)
        /\ call[k].keyword = call[k].keyword_swapped

(***************************************************************************)
(* Properties of the pipeline (SpecRun, SpecMain)                          *)
(***************************************************************************)
\* the stepwise loop of Spec and the function used by FindMatches agree
LoopAgreesWithFunction ==
    pc = "returned" => matches = find_matches(watchlist_films, cinema_films)

\* what each fetcher returns for a page that was fetched and holds no film
EmptyWatchlistFetch ==
    get_watchlist_from_web([raises |-> FALSE, films |-> <<>>])

EmptyListingsFetch ==
    get_roma_cinema_films([raises |-> FALSE, titles |-> <<>>])

\* C9 as stated: when the watchlist fetch or the listings fetch fails, what
\* reaches run differs from the result of a successful fetch of zero items,
\* and run never reports the failed fetch as 'no films found'.
C9_FailureDistinct ==
    /\ "watchlist" \in failed =>
           /\ watchlist_films # EmptyWatchlistFetch
           /\ report # "no_watchlist_films"
    /\ "listings" \in failed =>
           /\ cinema_films # EmptyListingsFetch
           /\ report # "no_cinema_films"

\* the program has ended
Terminated == pc \in {"done", "crashed"}

\* both sites are up and serve at least one film that the fetchers keep
BothFetchesNonEmpty ==
    /\ ~web_page.raises
    /\ ~listings_page.raises
    /\ get_watchlist_films(rss_feed, web_page) # <<>>
    /\ get_roma_cinema_films(listings_page) # <<>>

\* C10 as stated: an execution of the entry point in which both fetches
\* return non-empty lists performs, in this order, the watchlist fetch, the
\* listings fetch, find_matches and then exactly one notification.
C10_Pipeline ==
    (Terminated /\ BothFetchesNonEmpty) =>
        /\ trace = <<"watchlist_fetch", "listings_fetch", "find_matches",
                     "notify">>
        /\ Len(notifications) = 1

\* the number of calls of print_matches
PrintMatchesCalls ==
    Cardinality({i \in 1..Len(notifications) : notifications[i] = "console"})

\* the POST to the Telegram API was made and accepted
PostSucceeded == TelegramConfigured /\ telegram_post = "ok"

\* C12: after a call of send_telegram_notification the matches have been
\* reported through exactly one channel: print_matches was called exactly once
\* when Telegram is not configured or the POST raised or returned an error
\* status, and not at all when the POST succeeded; no exception reaches the
\* caller.
C12_OneChannel ==
    report = "notified" =>
        /\ Len(notifications) = 1
        /\ ~PostSucceeded =>
               PrintMatchesCalls = 1 /\ notifications = <<"console">>
        /\ PostSucceeded =>
               PrintMatchesCalls = 0 /\ notifications = <<"telegram">>
        /\ exception = <<>>
        /\ pc = "done"

C12_Witness ==
    /\ report = "notified"
    /\ TelegramConfigured
    /\ telegram_post = "error_status"
    /\ matches # <<>>
    /\ notifications = <<"console">>

(***************************************************************************)
(* Properties of get_watchlist_films (SpecWatchlist)                       *)
(***************************************************************************)
\* the steps of SpecWatchlist and the function used by run agree
StepsAgreeWithFunction ==
    pc = "returned" =>
        watchlist_films = get_watchlist_films(rss_feed, web_page)

\* the RSS step raised, or it collected no unrated entry
RssGaveNothing == rss_feed.raises \/ RssFilms(rss_feed) = <<>>

\* C13: get_watchlist_films tries the RSS feed first; it calls
\* get_watchlist_from_web, once, exactly when the RSS step raised or collected
\* no unrated entry, and otherwise returns the RSS films without calling it;
\* no exception leaves it, and the web path returns at most 30 films.
C13_SourceOrder ==
    /\ trace # <<>> => trace[1] = "rss"
    /\ exception = <<>>
    /\ pc = "returned" =>
           /\ RssGaveNothing => trace = <<"rss", "web">>
           /\ ~RssGaveNothing =>
                  trace = <<"rss">> /\ watchlist_films = RssFilms(rss_feed)
           /\ trace = <<"rss", "web">> => Len(watchlist_films) <= 30

C13_Witness ==
    /\ pc = "returned"
    /\ ~rss_feed.raises
    /\ rss_feed.entries # <<>>
    /\ RssFilms(rss_feed) = <<>>
    /\ trace = <<"rss", "web">>
    /\ Len(web_page.films) > 30
    /\ Len(watchlist_films) = 30

(***************************************************************************)
(* Properties of normalize_title (SpecNormalize)                           *)
(***************************************************************************)
\* the part of the normal form that holds of every result: lower case, no
\* punctuation character, no two whitespace characters in a row
NormalFormParts ==
    \A k \in 1..Len(call) :
        LET n == call[k].normalized
        IN  /\ Lower(n) = n
            /\ \A i \in 1..Len(n) : n[i] \notin Punctuation
            /\ \A i \in 1..(Len(n) - 1) :
                   ~(n[i] \in Whitespace /\ n[i + 1] \in Whitespace)

\* C11 as stated: the result of normalize_title is lower-case, holds no
\* punctuation character and no run of two or more whitespace characters, has
\* no leading or trailing whitespace, and normalizing it again changes nothing.
C11_NormalForm ==
    \A k \in 1..Len(call) :
        LET n == call[k].normalized
        IN  /\ Lower(n) = n
            /\ \A i \in 1..Len(n) : n[i] \notin Punctuation
            /\ \A i \in 1..(Len(n) - 1) :
                   ~(n[i] \in Whitespace /\ n[i + 1] \in Whitespace)
            /\ n # <<>> => n[1] \notin Whitespace /\ n[Len(n)] \notin Whitespace
            /\ call[k].again = n

====
